---------------------------- MODULE Spec2Model ----------------------------
(***************************************************************************)
(* The content-line lexer of ickle (src/src/lib.rs): Lexer::peek, the      *)
(* read_* loops and lex_content_line, as a state machine over a byte       *)
(* stream.  One action is one call edge or one loop iteration of the       *)
(* lexer.  Octets are one-character strings; byte strings are sequences.   *)
(***************************************************************************)
EXTENDS Integers, Sequences, FiniteSets, TLC

VARIABLES
    stream,       \* the octets of the byte source S (fixed while a lexer reads it)
    pos,          \* number of octets of stream already consumed (the BufRead cursor)
    line,         \* Lexer.line
    content,      \* Lexer.content: [name, params, num_params, value, line]
    ident_buf,    \* Lexer.ident_buf
    value_buf,    \* lex_content_line's local value_buf
    param_value,  \* read_param_value / read_quoted's local param_value
    i,            \* read_params' local i
    name,         \* do_lex_content_line's local name
    call_line,    \* lex_content_line's local line (self.line when the call began)
    pc,           \* where the running call is; "ready" between calls
    result,       \* what the last call returned
    startPos,     \* history: pos when the running / last call began
    pvStart,      \* history: pos when the last read_param_value call began
    src,          \* history: the description the stream was rendered from
    orig,         \* history: the same description rendered without its folds
    pass,         \* 1: lexing stream as given; 2: a fresh lexer on orig
    first,        \* history: what pass 1's first call returned
    coli,         \* the ContentLine handed to the property decoder (vevent.rs)
    decoded       \* the decoder function applied to coli, and what it returned

vars == <<stream, pos, line, content, ident_buf, value_buf, param_value, i, name,
          call_line, pc, result, startPos, pvStart, src, orig, pass, first,
          coli, decoded>>

----------------------------------------------------------------------------
(* Octets *)

CR  == "\r"
LF  == "\n"
SP  == " "
HT  == "\t"
BS  == "\\"
DQ  == "\""
XFF == "0xFF"    \* an octet that is never part of valid UTF-8

Upper == {"A","B","C","D","E","F","G","H","I","J","K","L","M",
          "N","O","P","Q","R","S","T","U","V","W","X","Y","Z"}
Lower == {"a","b","c","d","e","f","g","h","i","j","k","l","m",
          "n","o","p","q","r","s","t","u","v","w","x","y","z"}
Digit == {"0","1","2","3","4","5","6","7","8","9"}

\* read_identifier's match arm: b'-' | b'A'..=b'Z' | b'a'..=b'z' | b'0'..=b'9'
IsIdentChar(c) == c = "-" \/ c \in Upper \/ c \in Lower \/ c \in Digit

\* String::from_utf8 succeeds (restricted to the octets of this model)
IsUtf8(bytes) == \A k \in 1..Len(bytes) : bytes[k] # XFF

----------------------------------------------------------------------------
(* The identifier registries (define_identifier_set!) *)

PropertyRegistry ==
    { <<"C","A","L","S","C","A","L","E">>
    , <<"M","E","T","H","O","D">>
    , <<"P","R","O","D","I","D">>
    , <<"V","E","R","S","I","O","N">>
    , <<"A","T","T","A","C","H">>
    , <<"C","A","T","E","G","O","R","I","E","S">>
    , <<"C","L","A","S","S">>
    , <<"C","O","M","M","E","N","T">>
    , <<"D","E","S","C","R","I","P","T","I","O","N">>
    , <<"G","E","O">>
    , <<"L","O","C","A","T","I","O","N">>
    , <<"P","E","R","C","E","N","T","-","C","O","M","P","L","E","T","E">>
    , <<"P","R","I","O","R","I","T","Y">>
    , <<"R","E","S","O","U","R","C","E","S">>
    , <<"S","T","A","T","U","S">>
    , <<"S","U","M","M","A","R","Y">>
    , <<"C","O","M","P","L","E","T","E","D">>
    , <<"D","T","E","N","D">>
    , <<"D","U","E">>
    , <<"D","T","S","T","A","R","T">>
    , <<"D","U","R","A","T","I","O","N">>
    , <<"F","R","E","E","B","U","S","Y">>
    , <<"T","R","A","N","S","P">>
    , <<"T","Z","I","D">>
    , <<"T","Z","N","A","M","E">>
    , <<"T","Z","O","F","F","S","E","T","F","R","O","M">>
    , <<"T","Z","O","F","F","S","E","T","T","O">>
    , <<"T","Z","U","R","L">>
    , <<"A","T","T","E","N","D","E","E">>
    , <<"C","O","N","T","A","C","T">>
    , <<"O","R","G","A","N","I","Z","E","R">>
    , <<"R","E","C","U","R","R","E","N","C","E","-","I","D">>
    , <<"R","E","L","A","T","E","D","-","T","O">>
    , <<"U","R","L">>
    , <<"U","I","D">>
    , <<"E","X","D","A","T","E">>
    , <<"E","X","R","U","L","E">>
    , <<"R","D","A","T","E">>
    , <<"R","R","U","L","E">>
    , <<"A","C","T","I","O","N">>
    , <<"R","E","P","E","A","T">>
    , <<"T","R","I","G","G","E","R">>
    , <<"C","R","E","A","T","E","D">>
    , <<"D","T","S","T","A","M","P">>
    , <<"L","A","S","T","-","M","O","D","I","F","I","E","D">>
    , <<"S","E","Q","U","E","N","C","E">>
    , <<"R","E","Q","U","E","S","T","-","S","T","A","T","U","S">>
    , <<"B","E","G","I","N">>
    , <<"E","N","D">> }

ParamNameRegistry ==
    { <<"A","L","T","R","E","P">>
    , <<"C","N">>
    , <<"C","U","T","Y","P","E">>
    , <<"D","E","L","E","G","A","T","E","D","-","F","R","O","M">>
    , <<"D","E","L","E","G","A","T","E","D","-","T","O">>
    , <<"D","I","R">>
    , <<"E","N","C","O","D","I","N","G">>
    , <<"F","M","T","T","Y","P","E">>
    , <<"F","B","T","Y","P","E">>
    , <<"L","A","N","G","U","A","G","E">>
    , <<"M","E","M","B","E","R">>
    , <<"P","A","R","T","S","T","A","T">>
    , <<"R","A","N","G","E">>
    , <<"R","E","L","A","T","E","D">>
    , <<"R","E","L","T","Y","P","E">>
    , <<"R","O","L","E">>
    , <<"R","S","V","P">>
    , <<"S","E","N","T","-","B","Y">>
    , <<"T","Z","I","D">>
    , <<"V","A","L","U","E">> }

\* Property::from_bytes / ParamName::from_bytes: Ok(tag) exactly for a registered
\* token; a tag is represented by its token (as_str is the inverse).
PropertyFromBytes(s) == s \in PropertyRegistry
ParamNameFromBytes(s) == s \in ParamNameRegistry

END  == <<"E","N","D">>       \* Property::End, also Property::default()

----------------------------------------------------------------------------
(* The byte source *)

AtEnd(p) == p >= Len(stream)          \* fill_buf() returns an empty buffer

\* BufRead::consume(1); at the end of the stream the cursor stays (BufReader, Cursor)
Consume(p) == IF p < Len(stream) THEN p + 1 ELSE p

\* Lexer::peek started with cursor p and line counter ln.  ok = FALSE is
\* Err(Bad::Eof); pos and line are the cursor and counter peek leaves behind.
RECURSIVE Peek(_, _)
Peek(p, ln) ==
    IF AtEnd(p) THEN [ok |-> FALSE, c |-> "", pos |-> p, line |-> ln]
    ELSE IF stream[p + 1] # CR THEN [ok |-> TRUE, c |-> stream[p + 1], pos |-> p, line |-> ln]
    ELSE IF AtEnd(p + 1) THEN [ok |-> FALSE, c |-> "", pos |-> p + 1, line |-> ln]
    ELSE IF stream[p + 2] # LF THEN [ok |-> TRUE, c |-> stream[p + 2], pos |-> p + 2, line |-> ln]
    ELSE IF ~AtEnd(p + 2) /\ stream[p + 3] \in {SP, HT} THEN Peek(p + 3, ln + 1)
    ELSE [ok |-> TRUE, c |-> LF, pos |-> p + 2, line |-> ln + 1]

\* Lexer::read_escaped, entered after a peek pk that returned the backslash
ReadEscaped(pk) ==
    LET pk2 == Peek(Consume(pk.pos), pk.line)
    IN  IF ~pk2.ok THEN pk2
        ELSE IF pk2.c = "n" THEN [pk2 EXCEPT !.c = LF]
        ELSE [pk2 EXCEPT !.pos = Consume(pk2.pos)]

----------------------------------------------------------------------------
(* ContentLine's accessors *)

\* ContentLine::params
Params(cl) == SubSeq(cl.params, 1, cl.num_params)

HasParam(cl, pn) == \E k \in 1..Len(cl.params) : cl.params[k].name = pn
FirstParam(cl, pn) ==
    cl.params[CHOOSE k \in 1..Len(cl.params) :
                 /\ cl.params[k].name = pn
                 /\ \A j \in 1..(k - 1) : cl.params[j].name # pn]

\* ContentLine::values_of; None is <<"None">>, Some(vs) is <<"Some", vs>>
ValuesOf(cl, pn) ==
    IF HasParam(cl, pn) THEN <<"Some", FirstParam(cl, pn).values>> ELSE <<"None">>

\* ContentLine::value_of
ValueOf(cl, pn) ==
    IF HasParam(cl, pn) /\ FirstParam(cl, pn).values # <<>>
    THEN <<"Some", FirstParam(cl, pn).values[1]>> ELSE <<"None">>

----------------------------------------------------------------------------
(* Bounds *)

MaxValLen == 3     \* longest value, in symbols, of the rendered records
MaxRaw    == 3     \* longest arbitrary tail of the raw streams
MaxValues == 4     \* values one parameter may collect before the model stops it

----------------------------------------------------------------------------
(* The streams the lexer is run on.  A stream is rendered from a            *)
(* description: a record NAME *(";" PNAME "=" value *("," value)) ":" VALUE  *)
(* terminator, followed by further octets; or a prefix followed by an        *)
(* arbitrary tail.  A value is a sequence of symbols: octets, and the two    *)
(* fold marks, which render as CR LF SP and CR LF HTAB.                      *)

FoldSP == "FOLD-SP"
FoldHT == "FOLD-HT"
Folds  == {FoldSP, FoldHT}

CRLF == <<CR, LF>>
CN   == <<"C","N">>
DIR  == <<"D","I","R">>

SeqsUpTo(S, n) == UNION {[1..k -> S] : k \in 0..n}

RECURSIVE Flatten(_)
Flatten(ss) == IF ss = <<>> THEN <<>> ELSE Head(ss) \o Flatten(Tail(ss))

RenderSym(s, folded) ==
    IF s = FoldSP THEN (IF folded THEN <<CR, LF, SP>> ELSE <<>>)
    ELSE IF s = FoldHT THEN (IF folded THEN <<CR, LF, HT>> ELSE <<>>)
    ELSE <<s>>

RenderValue(v, folded) == Flatten([k \in 1..Len(v) |-> RenderSym(v[k], folded)])

RenderParamValue(p, k) ==
    (IF k = 1 THEN <<"=">> ELSE <<",">>)
    \o (IF p.quoted THEN <<DQ>> \o p.values[k] \o <<DQ>> ELSE p.values[k])

RenderParam(p) ==
    <<";">> \o p.name \o Flatten([k \in 1..Len(p.values) |-> RenderParamValue(p, k)])

RenderParams(ps) == Flatten([k \in 1..Len(ps) |-> RenderParam(ps[k])])

Render(s, folded) ==
    IF s.kind = "raw" THEN s.name \o s.rest
    ELSE s.name \o RenderParams(s.params) \o <<":">> \o RenderValue(s.value, folded)
         \o s.term \o s.rest

SrcParam(pn, q, vs) == [name |-> pn, quoted |-> q, values |-> vs]

OneParam == << SrcParam(CN, FALSE, << <<"a">> >>) >>

SrcParams ==
    { <<>>
    , OneParam
    , << SrcParam(CN, FALSE, << <<"a">>, <<"b">> >>) >>
    , << SrcParam(CN, TRUE,  << <<"a">> >>) >>
    , << SrcParam(CN, FALSE, << <<"a">> >>), SrcParam(DIR, FALSE, << <<"b">> >>) >>
    , << SrcParam(<<"Z">>, FALSE, << <<"a">> >>) >> }

ValSyms  == {"a", "n", BS, CR, FoldSP, FoldHT}
RawBytes == {";", ":", ",", DQ, "a", BS, CR, LF, XFF}

Rests == { <<>>, <<"X", ":">> \o CRLF, END \o <<":", "a">> \o CRLF }

RawPrefixes == { <<>>, END, END \o <<";">> \o CN, END \o <<";">> \o CN \o <<DQ, "a">> }

ValueSources ==
    [kind : {"rec"}, name : {END}, params : {<<>>, OneParam},
     value : SeqsUpTo(ValSyms, MaxValLen), term : {CRLF, <<LF>>, <<>>}, rest : Rests]

ParamSources ==
    [kind : {"rec"}, name : {END, <<"X">>}, params : SrcParams,
     value : {<<>>, <<"a">>}, term : {CRLF}, rest : Rests]

RawSources ==
    [kind : {"raw"}, name : RawPrefixes, params : {<<>>},
     value : {<<>>}, term : {<<>>}, rest : SeqsUpTo(RawBytes, MaxRaw)]

\* Records whose value holds an octet that is not UTF-8
EncodingSources ==
    [kind : {"rec"}, name : {END}, params : {<<>>},
     value : {<<XFF>>, <<"a", XFF>>}, term : {CRLF}, rest : Rests]

Sources == ValueSources \cup ParamSources \cup RawSources \cup EncodingSources

----------------------------------------------------------------------------
(* Results of a call *)

NoResult == [kind |-> "none", cond |-> "", bytes |-> <<>>, line |-> 0]
Returned(kind, cond, bytes, ln) == [kind |-> kind, cond |-> cond, bytes |-> bytes, line |-> ln]

\* Bad::is_unrecoverable (Bad::Io does not arise from an in-memory stream)
IsUnrecoverable(cond) == cond = "Eof"

\* lex_content_line, lines 227-235: the value buffer goes back into content.value,
\* emptied when it is not UTF-8
RestoredValue(buf) == IF IsUtf8(buf) THEN buf ELSE <<>>

----------------------------------------------------------------------------
(* Lexer::new *)

NewContent == [name |-> END, params |-> <<>>, num_params |-> 0, value |-> <<>>, line |-> 0]

New(s) ==
    /\ stream = s
    /\ pos = 0
    /\ line = 1
    /\ content = NewContent
    /\ ident_buf = <<>>
    /\ value_buf = <<>> /\ param_value = <<>> /\ i = 0 /\ name = END /\ call_line = 0
    /\ pc = "ready"
    /\ result = NoResult
    /\ startPos = 0 /\ pvStart = 0

\* No decoder function has been applied
NotDecoded == [fn |-> "none", kind |-> "none", val |-> <<>>]

Init ==
    \E s \in Sources :
        /\ coli = NewContent
        /\ decoded = NotDecoded
        /\ src = s
        /\ orig = Render(s, FALSE)
        /\ pass = 1
        /\ first = [result |-> NoResult, content |-> NewContent]
        /\ New(Render(s, TRUE))

----------------------------------------------------------------------------
(* lex_content_line *)

history == <<src, orig, pass, first>>
decoding == <<coli, decoded>>

\* The error return of lex_content_line (lines 227-237, 243-248), reached through
\* a `?` with the cursor at p and the line counter at ln.
Fail(cond, bytes, p, ln) ==
    /\ pos' = p
    /\ line' = ln
    /\ content' = [content EXCEPT !.value = RestoredValue(value_buf)]
    /\ result' = Returned("err", cond, bytes, call_line)
    /\ pc' = "ready"
    /\ UNCHANGED <<stream, ident_buf, value_buf, param_value, i, name, call_line,
                   startPos, pvStart>>

\* unreachable!(): the call panics; the lexer is not used again
Abort(p, ln) ==
    /\ pos' = p
    /\ line' = ln
    /\ result' = Returned("abort", "", <<>>, 0)
    /\ pc' = "aborted"
    /\ UNCHANGED <<stream, content, ident_buf, value_buf, param_value, i, name,
                   call_line, startPos, pvStart>>

\* A call of lex_content_line: end of stream, or the buffers are taken and
\* do_lex_content_line starts with read_identifier.
LexContentLine ==
    /\ pc = "ready"
    /\ result.kind \notin {"eos", "abort"}
    /\ ~(result.kind = "err" /\ IsUnrecoverable(result.cond))
    /\ call_line' = line
    /\ startPos' = pos
    /\ IF AtEnd(pos)
       THEN /\ result' = Returned("eos", "", <<>>, 0)
            /\ UNCHANGED <<content, ident_buf, value_buf, pc>>
       ELSE /\ value_buf' = content.value
            /\ content' = [content EXCEPT !.value = <<>>]
            /\ ident_buf' = <<>>
            /\ pc' = "prop_ident"
            /\ UNCHANGED result
    /\ UNCHANGED <<stream, pos, line, param_value, i, name, pvStart>>
    /\ UNCHANGED <<history, decoding>>

\* read_identifier and Property::from_bytes as in do_lex_content_line, followed
\* by a read_params that does not clear the parameter vector it is handed
ReadPropIdentifierKeepingParams ==
    /\ pc = "prop_ident"
    /\ LET pk == Peek(pos, line)
       IN  IF ~pk.ok THEN Fail("Eof", <<>>, pk.pos, pk.line)
           ELSE IF IsIdentChar(pk.c)
           THEN /\ ident_buf' = Append(ident_buf, pk.c)
                /\ pos' = Consume(pk.pos)
                /\ line' = pk.line
                /\ UNCHANGED <<stream, content, value_buf, param_value, i, name,
                               call_line, pc, result, startPos, pvStart>>
           ELSE IF ~PropertyFromBytes(ident_buf)
           THEN Fail("Property", ident_buf, pk.pos, pk.line)
           ELSE /\ name' = ident_buf
                /\ i' = 0
                /\ pos' = pk.pos
                /\ line' = pk.line
                /\ pc' = "params"
                /\ UNCHANGED <<stream, content, ident_buf, value_buf, param_value,
                               call_line, result, startPos, pvStart>>
    /\ UNCHANGED <<history, decoding>>

\* One iteration of read_identifier's loop for the property name; on break,
\* Property::from_bytes and the start of read_params.
ReadPropIdentifier ==
    /\ pc = "prop_ident"
    /\ LET pk == Peek(pos, line)
       IN  IF ~pk.ok THEN Fail("Eof", <<>>, pk.pos, pk.line)
           ELSE IF IsIdentChar(pk.c)
           THEN /\ ident_buf' = Append(ident_buf, pk.c)
                /\ pos' = Consume(pk.pos)
                /\ line' = pk.line
                /\ UNCHANGED <<stream, content, value_buf, param_value, i, name,
                               call_line, pc, result, startPos, pvStart>>
           ELSE IF ~PropertyFromBytes(ident_buf)
           THEN Fail("Property", ident_buf, pk.pos, pk.line)
           ELSE /\ name' = ident_buf
                /\ content' = [content EXCEPT !.params = <<>>]
                /\ i' = 0
                /\ pos' = pk.pos
                /\ line' = pk.line
                /\ pc' = "params"
                /\ UNCHANGED <<stream, ident_buf, value_buf, param_value, call_line,
                               result, startPos, pvStart>>
    /\ UNCHANGED <<history, decoding>>

\* The head of the 'params loop: peek, consume(1), match c
ReadParams ==
    /\ pc = "params"
    /\ LET pk == Peek(pos, line)
       IN  IF ~pk.ok THEN Fail("Eof", <<>>, pk.pos, pk.line)
           ELSE IF pk.c = ";"
           THEN /\ ident_buf' = <<>>
                /\ pos' = Consume(pk.pos)
                /\ line' = pk.line
                /\ pc' = "param_ident"
                /\ UNCHANGED <<stream, content, value_buf, param_value, i, name,
                               call_line, result, startPos, pvStart>>
           ELSE IF pk.c = ":"
           THEN /\ value_buf' = <<>>
                /\ pos' = Consume(pk.pos)
                /\ line' = pk.line
                /\ pc' = "value"
                /\ UNCHANGED <<stream, content, ident_buf, param_value, i, name,
                               call_line, result, startPos, pvStart>>
           ELSE Abort(Consume(pk.pos), pk.line)
    /\ UNCHANGED <<history, decoding>>

\* The slot read_params gives the parameter it is reading (lines 366-371)
WithParamSlot(ps, k, pn) ==
    IF k < Len(ps)
    THEN [ps EXCEPT ![k + 1] = [name |-> pn, values |-> <<>>]]
    ELSE Append(ps, [name |-> pn, values |-> <<>>])

\* One iteration of read_identifier's loop for a parameter name; on break,
\* ParamName::from_bytes and the parameter's slot.
ReadParamIdentifier ==
    /\ pc = "param_ident"
    /\ LET pk == Peek(pos, line)
       IN  IF ~pk.ok THEN Fail("Eof", <<>>, pk.pos, pk.line)
           ELSE IF IsIdentChar(pk.c)
           THEN /\ ident_buf' = Append(ident_buf, pk.c)
                /\ pos' = Consume(pk.pos)
                /\ line' = pk.line
                /\ UNCHANGED <<stream, content, value_buf, param_value, i, name,
                               call_line, pc, result, startPos, pvStart>>
           ELSE IF ~ParamNameFromBytes(ident_buf)
           THEN Fail("Param", ident_buf, pk.pos, pk.line)
           ELSE /\ content' = [content EXCEPT !.params = WithParamSlot(@, i, ident_buf)]
                /\ pos' = pk.pos
                /\ line' = pk.line
                /\ pc' = "param_value"
                /\ UNCHANGED <<stream, ident_buf, value_buf, param_value, i, name,
                               call_line, result, startPos, pvStart>>
    /\ UNCHANGED <<history, decoding>>

\* The head of read_param_value: the first peek chooses quoted or unquoted
ReadParamValue ==
    /\ pc = "param_value"
    /\ Len(content.params[i + 1].values) < MaxValues
    /\ LET pk == Peek(pos, line)
       IN  IF ~pk.ok THEN Fail("Eof", <<>>, pk.pos, pk.line)
           ELSE /\ param_value' = <<>>
                /\ pvStart' = pos
                /\ pos' = IF pk.c = DQ THEN Consume(pk.pos) ELSE pk.pos
                /\ line' = pk.line
                /\ pc' = IF pk.c = DQ THEN "quoted" ELSE "unquoted"
                /\ UNCHANGED <<stream, content, ident_buf, value_buf, i, name,
                               call_line, result, startPos>>
    /\ UNCHANGED <<history, decoding>>

\* The end of read_param_value (String::from_utf8) and the push of line 374
PushParamValue(p, ln) ==
    IF ~IsUtf8(param_value) THEN Fail("Encoding", <<>>, p, ln)
    ELSE /\ content' = [content EXCEPT !.params[i + 1].values = Append(@, param_value)]
         /\ pos' = p
         /\ line' = ln
         /\ pc' = "after_param_value"
         /\ UNCHANGED <<stream, ident_buf, value_buf, param_value, i, name,
                        call_line, result, startPos, pvStart>>

\* An octet c joins param_value, the cursor going to p
PushParamOctet(c, p, ln) ==
    /\ param_value' = Append(param_value, c)
    /\ pos' = p
    /\ line' = ln
    /\ UNCHANGED <<stream, content, ident_buf, value_buf, i, name, call_line, pc,
                   result, startPos, pvStart>>

\* One iteration of read_param_value's unquoted loop
ReadUnquoted ==
    /\ pc = "unquoted"
    /\ LET pk == Peek(pos, line)
           es == ReadEscaped(pk)
       IN  IF ~pk.ok THEN Fail("Eof", <<>>, pk.pos, pk.line)
           ELSE IF pk.c \in {",", ";", ":"} THEN PushParamValue(pk.pos, pk.line)
           ELSE IF pk.c = BS
           THEN IF ~es.ok THEN Fail("Eof", <<>>, es.pos, es.line)
                ELSE PushParamOctet(es.c, es.pos, es.line)
           ELSE PushParamOctet(pk.c, Consume(pk.pos), pk.line)
    /\ UNCHANGED <<history, decoding>>

\* One iteration of read_quoted's loop; on the closing quote, the consume(1)
\* of line 337
ReadQuoted ==
    /\ pc = "quoted"
    /\ LET pk == Peek(pos, line)
           es == ReadEscaped(pk)
       IN  IF ~pk.ok THEN Fail("Eof", <<>>, pk.pos, pk.line)
           ELSE IF pk.c = DQ THEN PushParamValue(Consume(pk.pos), pk.line)
           ELSE IF pk.c = BS
           THEN IF ~es.ok THEN Fail("Eof", <<>>, es.pos, es.line)
                ELSE PushParamOctet(es.c, es.pos, es.line)
           ELSE PushParamOctet(pk.c, Consume(pk.pos), pk.line)
    /\ UNCHANGED <<history, decoding>>

\* The match after a parameter value (lines 375-380)
AfterParamValue ==
    /\ pc = "after_param_value"
    /\ LET pk == Peek(pos, line)
       IN  IF ~pk.ok THEN Fail("Eof", <<>>, pk.pos, pk.line)
           ELSE IF pk.c \in {",", ";", ":"}
           THEN /\ pos' = pk.pos
                /\ line' = pk.line
                /\ pc' = CASE pk.c = "," -> "param_value"
                           [] pk.c = ";" -> "params"
                           [] pk.c = ":" -> "value"
                /\ i' = IF pk.c = ";" THEN i + 1 ELSE i
                /\ value_buf' = IF pk.c = ":" THEN <<>> ELSE value_buf
                /\ UNCHANGED <<stream, content, ident_buf, param_value, name,
                               call_line, result, startPos, pvStart>>
           ELSE Abort(pk.pos, pk.line)
    /\ UNCHANGED <<history, decoding>>

\* An octet c joins value_buf, the cursor going to p
PushValueOctet(c, p, ln) ==
    /\ value_buf' = Append(value_buf, c)
    /\ pos' = p
    /\ line' = ln
    /\ UNCHANGED <<stream, content, ident_buf, param_value, i, name, call_line, pc,
                   result, startPos, pvStart>>

\* The Ok return of lex_content_line (lines 227-242)
ReturnContentLine(p, ln) ==
    /\ content' = [content EXCEPT !.value = RestoredValue(value_buf), !.name = name]
    /\ result' = Returned("line", "", <<>>, 0)
    /\ pos' = p
    /\ line' = ln
    /\ pc' = "ready"
    /\ UNCHANGED <<stream, ident_buf, value_buf, param_value, i, name, call_line,
                   startPos, pvStart>>

\* One iteration of read_value's loop
ReadValue ==
    /\ pc = "value"
    /\ LET pk == Peek(pos, line)
           es == ReadEscaped(pk)
       IN  IF ~pk.ok THEN Fail("Eof", <<>>, pk.pos, pk.line)
           ELSE IF pk.c = LF THEN ReturnContentLine(pk.pos, pk.line)
           ELSE IF pk.c = BS
           THEN IF ~es.ok THEN Fail("Eof", <<>>, es.pos, es.line)
                ELSE PushValueOctet(es.c, es.pos, es.line)
           ELSE PushValueOctet(pk.c, Consume(pk.pos), pk.line)
    /\ UNCHANGED <<history, decoding>>

Next ==
    \/ LexContentLine
    \/ ReadPropIdentifier
    \/ ReadParams
    \/ ReadParamIdentifier
    \/ ReadParamValue
    \/ ReadUnquoted
    \/ ReadQuoted
    \/ AfterParamValue
    \/ ReadValue

Spec == Init /\ [][Next]_vars

\* Lexer::new on the unfolded rendering of the same description, once the
\* first call on the folded rendering is over; that call's outcome is kept.
StartUnfolded ==
    /\ pass = 1
    /\ pc \in {"ready", "aborted"}
    /\ result.kind # "none"
    /\ startPos = 0
    /\ first' = [result |-> result, content |-> content]
    /\ pass' = 2
    /\ stream' = orig
    /\ pos' = 0
    /\ line' = 1
    /\ content' = NewContent
    /\ ident_buf' = <<>>
    /\ value_buf' = <<>> /\ param_value' = <<>> /\ i' = 0 /\ name' = END /\ call_line' = 0
    /\ pc' = "ready"
    /\ result' = NoResult
    /\ startPos' = 0 /\ pvStart' = 0
    /\ UNCHANGED <<src, orig, decoding>>

NextFold ==
    \/ Next
    \/ StartUnfolded

SpecFold == Init /\ [][NextFold]_vars

----------------------------------------------------------------------------
(* What the claims are stated with *)

\* The running or last call is the first one on the stream as rendered
FirstCall == pass = 1 /\ startPos = 0

\* The last call returned a ContentLine / an Error
ReturnedLine  == pc = "ready" /\ result.kind = "line"
ReturnedError == pc = "ready" /\ result.kind = "err"

\* The stream starts with a record of the grammar, terminated by CRLF
StartsWithRecord == src.kind = "rec" /\ src.term = CRLF

\* The number of CR LF pairs in a byte string
CountCRLF(s) == Cardinality({k \in 1..(Len(s) - 1) : s[k] = CR /\ s[k + 1] = LF})

\* The octets the lexer had consumed when the running or last call began
ConsumedBefore == SubSeq(stream, 1, startPos)

\* The longest run of identifier octets at the head of a byte string
RECURSIVE LeadingIdentifier(_)
LeadingIdentifier(s) ==
    IF s # <<>> /\ IsIdentChar(Head(s)) THEN <<Head(s)>> \o LeadingIdentifier(Tail(s))
    ELSE <<>>

\* A value in which unfolding is all there is to decode: no backslash, no CR
IsPlainValue(v) == \A k \in 1..Len(v) : v[k] \notin {BS, CR}

\* The escape pairs of the format, and the octet each stands for
SupportedEscapes == {"n", ",", ";", BS, DQ}
Unescaped(x) == IF x = "n" THEN LF ELSE x

----------------------------------------------------------------------------
(* The claims *)

\* C1: for a well-formed record NAME;P=v:val CRLF with a registered parameter
\* name P and a single unquoted value v, the returned ContentLine has
\* value_of(P) = v: the "=" is not part of the stored parameter value.
C1_ParamValueExcludesEquals ==
    (/\ FirstCall /\ ReturnedLine /\ StartsWithRecord
     /\ Len(src.params) = 1
     /\ Len(src.params[1].values) = 1
     /\ ~src.params[1].quoted)
    => ValueOf(content, src.params[1].name) = <<"Some", src.params[1].values[1]>>

\* C2: for a well-formed record, with or without parameters, value() is exactly
\* the unfolded octets after the ":" that ends the name/parameter section (stated
\* for values without backslash, where escape decoding changes nothing); the ":"
\* is never the first octet of value().
C2_ValueIsOctetsAfterColon ==
    (FirstCall /\ ReturnedLine /\ StartsWithRecord /\ IsPlainValue(src.value))
    => content.value = RenderValue(src.value, FALSE)

\* C3: for a parameter written with k >= 2 comma-separated values, the
\* parameter never holds an extra or an empty entry while the record is read,
\* and the returned ContentLine holds exactly the k values in source order.
C3_CommaSeparatedValues ==
    (/\ FirstCall /\ src.kind = "rec"
     /\ Len(src.params) = 1
     /\ Len(src.params[1].values) >= 2
     /\ Len(content.params) >= 1)
    => LET vs == content.params[1].values
       IN  /\ Len(vs) <= Len(src.params[1].values)
           /\ \A k \in 1..Len(vs) : vs[k] # <<>>
           /\ ReturnedLine => vs = src.params[1].values

\* C4: a supported escape pair (backslash, then one of n , ; \ ") in a value
\* decodes to exactly one octet (newline for \n, else the escaped character);
\* the octet after the backslash is not emitted again.
C4_EscapePairDecodesToOneOctet ==
    (/\ FirstCall /\ ReturnedLine /\ StartsWithRecord
     /\ src.params = <<>>
     /\ Len(src.value) = 2
     /\ src.value[1] = BS
     /\ src.value[2] \in SupportedEscapes)
    => content.value = <<Unescaped(src.value[2])>>

\* What a lexer's first call gave: the kind of outcome, the error condition,
\* and for a ContentLine its name, parameters and value
Outcome(r, cl) ==
    IF r.kind = "line"
    THEN <<"line", cl.name, cl.params, cl.value>>
    ELSE <<r.kind, r.cond, r.bytes>>

\* C5: fold invariance: lexing a valid record with folds (CR LF SP or CR LF HTAB)
\* inserted at any byte boundaries inside its value gives the same name,
\* parameters and value as lexing the record without the folds.
C5_FoldInvariance ==
    (/\ pass = 2 /\ startPos = 0 /\ pc \in {"ready", "aborted"} /\ result.kind # "none"
     /\ StartsWithRecord)
    => Outcome(first.result, first.content) = Outcome(result, content)

\* C5 restricted to values without CR: the fold invariance that does hold
FoldInvarianceWithoutLoneCR ==
    (/\ pass = 2 /\ startPos = 0 /\ pc \in {"ready", "aborted"} /\ result.kind # "none"
     /\ StartsWithRecord
     /\ \A k \in 1..Len(src.value) : src.value[k] # CR)
    => Outcome(first.result, first.content) = Outcome(result, content)

\* C6: every call yields a ContentLine, end-of-stream or an Error; the
\* unreachable!() arms of read_params are reached for no input.
C6_NeverAborts == pc # "aborted" /\ result.kind # "abort"

\* C7: no loop inside the lexer iterates without consuming an octet: not the
\* loops of read_identifier, read_param_value, read_quoted and read_value, and
\* not the 'param_values loop of read_params.
C7_EveryIterationConsumes ==
    [][/\ (pc' = pc /\ pc \in {"prop_ident", "param_ident", "unquoted", "quoted", "value"})
          => pos' > pos
       /\ (pc = "after_param_value" /\ pc' = "param_value")
          => pos' > pvStart]_vars

\* C8: every ContentLine returned carries in line() the 1-based physical line on
\* which its record began: 1 plus the number of CRLF sequences consumed before
\* the record's first octet.
C8_ContentLineCarriesItsLine ==
    ReturnedLine => content.line = 1 + CountCRLF(ConsumedBefore)

\* C9: for a successfully lexed record with n >= 0 parameters, params() yields
\* exactly those n parameters in source order and agrees with values_of on
\* which parameters are present.
C9_ParamsYieldsEveryParameter ==
    (FirstCall /\ ReturnedLine /\ StartsWithRecord)
    => /\ Len(Params(content)) = Len(src.params)
       /\ \A k \in 1..Len(Params(content)) : Params(content)[k].name = src.params[k].name
       /\ \A pn \in ParamNameRegistry :
             (ValuesOf(content, pn) # <<"None">>)
             <=> (\E k \in 1..Len(Params(content)) : Params(content)[k].name = pn)

\* C10: the error for a record whose (non-empty) property name is not in the
\* registry carries the offending name bytes and the 1-based physical line on
\* which that record starts: 1 plus the number of CRLF sequences consumed by all
\* earlier calls.
C10_UnrecognizedPropertyLine ==
    (ReturnedError /\ result.cond = "Property" /\ result.bytes # <<>>)
    => /\ result.bytes = LeadingIdentifier(SubSeq(stream, startPos + 1, Len(stream)))
       /\ result.line = 1 + CountCRLF(ConsumedBefore)

\* A byte string holds a logical newline: CR LF not followed by SP or HTAB
HasLogicalNewline(s) ==
    \E k \in 1..(Len(s) - 1) :
        /\ s[k] = CR /\ s[k + 1] = LF
        /\ ~(k + 2 <= Len(s) /\ s[k + 2] \in {SP, HT})

\* The stream is one record that ends after its ":" and before the CRLF that
\* would terminate its value
TruncatedInValue ==
    /\ src.kind = "rec" /\ src.rest = <<>> /\ src.term # CRLF
    /\ PropertyFromBytes(src.name)
    /\ ~HasLogicalNewline(stream)

\* The first call on the stream is over, however it ended
FirstCallOver == FirstCall /\ pc \in {"ready", "aborted"} /\ result.kind # "none"

\* C11: if the stream ends after a record's ":" and before the CRLF that
\* terminates its value, the call returns the unexpected-end-of-input error,
\* which is unrecoverable, and no ContentLine holding the partial value.
C11_TruncatedValueIsEof ==
    (FirstCallOver /\ TruncatedInValue)
    => /\ result.kind = "err" /\ result.cond = "Eof"
       /\ IsUnrecoverable(result.cond)

\* C11 for values without a lone CR and without a bare LF: the part that holds
TruncatedCleanValueIsEof ==
    (/\ FirstCallOver /\ TruncatedInValue /\ src.term = <<>>
     /\ \A k \in 1..Len(src.value) : src.value[k] # CR)
    => /\ result.kind = "err" /\ result.cond = "Eof"
       /\ IsUnrecoverable(result.cond)

\* C12: if the octets of a record's value are not valid UTF-8, the call returns
\* the text-encoding error and no ContentLine (not one with an empty or altered
\* value).
C12_InvalidUtf8ValueIsError ==
    (/\ FirstCallOver /\ StartsWithRecord
     /\ PropertyFromBytes(src.name) /\ src.params = <<>>
     /\ IsPlainValue(src.value)
     /\ ~IsUtf8(RenderValue(src.value, FALSE)))
    => result.kind = "err" /\ result.cond = "Encoding"

\* A value of ordinary octets and lone CRs: no backslash, no fold, no XFF
IsValueWithLoneCR(v) ==
    /\ \E k \in 1..Len(v) : v[k] = CR
    /\ \A k \in 1..Len(v) : v[k] \in {"a", "n", CR}

\* C13: a lone CR inside a value is an ordinary octet: it appears in the decoded
\* value, the octets after it are each delivered exactly once, and the line
\* counter does not change for it (only the terminating CRLF counts).
C13_LoneCRIsOrdinaryOctet ==
    (/\ FirstCallOver /\ StartsWithRecord
     /\ PropertyFromBytes(src.name) /\ src.params = <<>>
     /\ IsValueWithLoneCR(src.value))
    => /\ result.kind = "line"
       /\ content.value = src.value
       /\ line = 2

----------------------------------------------------------------------------
(* The property decoder (src/src/vevent.rs).  A string is the sequence of    *)
(* its UTF-8 octets: an ASCII character is one octet, and "é" is the lead    *)
(* octet 0xC3 followed by the continuation octet 0xA9.  Lengths and slice    *)
(* bounds count octets, as in Rust.  A function's outcome is Ok(value),      *)
(* Err(error) or Panic(site) (the call aborts at that site).                 *)

Ok(v)  == [kind |-> "ok", val |-> v]
Err(e) == [kind |-> "err", val |-> e]
Panic(site) == [kind |-> "abort", val |-> site]

\* Bad::Value { datatype, invalid } and Bad::Condition { error }
BadValue(datatype, invalid) == <<"Value", datatype, invalid>>
BadCondition(error) == <<"Condition", error>>

DigitSeq == <<"0","1","2","3","4","5","6","7","8","9">>
DigitValue(c) == (CHOOSE k \in 1..10 : DigitSeq[k] = c) - 1

RECURSIVE NatOf(_)
NatOf(ds) ==
    IF ds = <<>> THEN 0
    ELSE 10 * NatOf(SubSeq(ds, 1, Len(ds) - 1)) + DigitValue(ds[Len(ds)])

RECURSIVE StripZeros(_)
StripZeros(ds) == IF Len(ds) > 1 /\ Head(ds) = "0" THEN StripZeros(Tail(ds)) ELSE ds

\* The number written by the digits ds (no leading zeros) is at most
\* hi5 * 10^5 + lo5; the comparison is by halves, the bound of a 32-bit type
\* having ten digits
AtMost(ds, hi5, lo5) ==
    /\ Len(ds) <= 10
    /\ LET h == IF Len(ds) > 5 THEN NatOf(SubSeq(ds, 1, Len(ds) - 5)) ELSE 0
           l == IF Len(ds) > 5 THEN NatOf(SubSeq(ds, Len(ds) - 4, Len(ds)))
                ELSE NatOf(ds)
       IN  h < hi5 \/ (h = hi5 /\ l <= lo5)

\* <integer type>::from_str: an optional sign ("+", and "-" for a signed type),
\* then one or more ASCII digits, the value within the type's range (the bound
\* for a negative value is hi5n, lo5n).  The value of a ten-digit number is kept
\* as its digits.
InRange(sd, neg, hi5, lo5) ==
    IF ~AtMost(sd, hi5, lo5) THEN Err(<<>>)
    ELSE IF Len(sd) = 10 THEN Ok(<<neg, sd>>)
    ELSE Ok(IF neg THEN 0 - NatOf(sd) ELSE NatOf(sd))

DigitsValue(ds, neg, hi5, lo5) ==
    IF ds = <<>> \/ (\E k \in 1..Len(ds) : ds[k] \notin Digit) THEN Err(<<>>)
    ELSE InRange(StripZeros(ds), neg, hi5, lo5)

IntFromStr(s, signed, hi5, lo5, hi5n, lo5n) ==
    IF signed /\ s # <<>> /\ s[1] = "-" THEN DigitsValue(Tail(s), TRUE, hi5n, lo5n)
    ELSE IF s # <<>> /\ s[1] = "+" THEN DigitsValue(Tail(s), FALSE, hi5, lo5)
    ELSE DigitsValue(s, FALSE, hi5, lo5)

I32FromStr(s) == IntFromStr(s, TRUE, 21474, 83647, 21474, 83648)
U32FromStr(s) == IntFromStr(s, FALSE, 42949, 67295, 0, 0)
U8FromStr(s)  == IntFromStr(s, FALSE, 0, 255, 0, 0)
I8FromStr(s)  == IntFromStr(s, TRUE, 0, 127, 0, 128)

\* chrono: the days of a month of the proleptic Gregorian calendar
IsLeapYear(y) == y % 4 = 0 /\ (y % 100 # 0 \/ y % 400 = 0)
DaysInMonth(y, m) ==
    IF m = 2 THEN (IF IsLeapYear(y) THEN 29 ELSE 28)
    ELSE IF m \in {4, 6, 9, 11} THEN 30 ELSE 31

\* chrono NaiveDate::from_ymd: panics on an invalid month or day (a year of at
\* most four characters is always in range)
from_ymd(yy, mm, dd) ==
    IF mm \in 1..12 /\ dd >= 1 /\ dd <= DaysInMonth(yy, mm)
    THEN Ok(<<"Date", yy, mm, dd>>)
    ELSE Panic("from_ymd")

\* "é" in UTF-8
XC3 == "0xC3"
XA9 == "0xA9"
EAcute == <<XC3, XA9>>

\* str::is_char_boundary: no character of s straddles the octet offset k
IsCharBoundary(s, k) ==
    \/ k = 0
    \/ k = Len(s)
    \/ k < Len(s) /\ s[k + 1] # XA9

\* &s[a..b] and the halves of s.split_at(k): the octets a+1..b of s; panics
\* when a or b is inside a character
Slice(s, a, b) ==
    IF IsCharBoundary(s, a) /\ IsCharBoundary(s, b) THEN Ok(SubSeq(s, a + 1, b))
    ELSE Panic("char boundary")

\* Result::map_err(|_| e)
MapErr(r, e) == IF r.kind = "err" THEN Err(e) ELSE r

\* T::from(v) of an Ok(v), the variant named by tag
Into(tag, r) == IF r.kind = "ok" THEN Ok(<<tag, r.val>>) ELSE r

\* <integer type>::from_str(&s[a..b])
FromStrAt(X, s, a, b) ==
    IF Slice(s, a, b).kind = "abort" THEN Slice(s, a, b)
    ELSE IF X = "i32" THEN I32FromStr(SubSeq(s, a + 1, b))
    ELSE U32FromStr(SubSeq(s, a + 1, b))

\* parse_date, lines 93-96, yy, mm and dd being the outcomes of the three
\* from_str; a later field is looked at only when the earlier ones parsed
date_of(s, yy, mm, dd) ==
    IF yy.kind # "ok" THEN MapErr(yy, BadValue("Date", s))
    ELSE IF mm.kind # "ok" THEN MapErr(mm, BadValue("Date", s))
    ELSE IF dd.kind # "ok" THEN MapErr(dd, BadValue("Date", s))
    ELSE from_ymd(yy.val, mm.val, dd.val)

\* parse_date
parse_date(s) ==
    IF Len(s) # 8 THEN Err(BadValue("Date", s))
    ELSE date_of(s, FromStrAt("i32", s, 0, 4), FromStrAt("u32", s, 4, 6),
                 FromStrAt("u32", s, 6, 8))

\* The index of the first c in s, 0 when there is none
IndexOf(s, c) ==
    IF \E k \in 1..Len(s) : s[k] = c
    THEN CHOOSE k \in 1..Len(s) : s[k] = c /\ \A j \in 1..(k - 1) : s[j] # c
    ELSE 0

\* str::splitn(2, c): the part before the first c, and what follows it
BeforeFirst(s, c) == IF IndexOf(s, c) = 0 THEN s ELSE SubSeq(s, 1, IndexOf(s, c) - 1)
AfterFirst(s, c)  == SubSeq(s, IndexOf(s, c) + 1, Len(s))

\* chrono NaiveDate::and_hms: panics on an invalid hour, minute or second
and_hms(date, hh, mm, ss) ==
    IF hh \in 0..23 /\ mm \in 0..59 /\ ss \in 0..59
    THEN Ok(<<date, hh, mm, ss>>)
    ELSE Panic("and_hms")

\* parse_datetime, lines 113-117, datetime being the outcome of and_hms
zone_of(s, z, datetime) ==
    IF datetime.kind = "abort" THEN datetime
    ELSE IF z = <<"Z">> THEN Ok(<<"Utc", datetime.val>>)
    ELSE IF z = <<>> THEN Ok(<<"Floating", datetime.val>>)
    ELSE Err(BadValue("DateTime", s))

\* parse_datetime, lines 108-111, hh, mm and ss being the outcomes of the three
\* from_str
time_of(s, date, z, hh, mm, ss) ==
    IF hh.kind # "ok" THEN MapErr(hh, BadValue("DateTime", s))
    ELSE IF mm.kind # "ok" THEN MapErr(mm, BadValue("DateTime", s))
    ELSE IF ss.kind # "ok" THEN MapErr(ss, BadValue("DateTime", s))
    ELSE zone_of(s, z, and_hms(date, hh.val, mm.val, ss.val))

\* parse_datetime, lines 103-107, date being the outcome of parse_date and time
\* what follows the "T"
datetime_of(s, date, time) ==
    IF date.kind = "abort" THEN date
    ELSE IF date.kind = "err" THEN Err(BadValue("DateTime", s))
    ELSE IF IndexOf(s, "T") = 0 THEN Err(BadValue("DateTime", s))
    ELSE IF Len(time) < 6 THEN Err(BadValue("DateTime", s))
    ELSE IF Slice(time, 0, 6).kind = "abort" THEN Slice(time, 0, 6)
    ELSE time_of(s, date.val, SubSeq(time, 7, Len(time)),
                 FromStrAt("u32", SubSeq(time, 1, 6), 0, 2),
                 FromStrAt("u32", SubSeq(time, 1, 6), 2, 4),
                 FromStrAt("u32", SubSeq(time, 1, 6), 4, 6))

\* parse_datetime
parse_datetime(s) == datetime_of(s, parse_date(BeforeFirst(s, "T")), AfterFirst(s, "T"))

\* The message of the panic of with_tzid
TzidTwice == "set tzid twice on the same DateTime?"

\* with_tzid attaching the reference to any date-time, a Utc one included
with_tzid_unchecked(dt, tzid) == Ok(<<"Local", dt[2], tzid>>)

\* DateTime::with_tzid
with_tzid(dt, tzid) ==
    IF dt[1] = "Utc" THEN Err(BadCondition("UTC time must not have TZID"))
    ELSE IF dt[1] = "Floating" THEN Ok(<<"Local", dt[2], tzid>>)
    ELSE Panic(TzidTwice)

\* parse_utc
parse_utc(s) ==
    IF parse_datetime(s).kind # "ok" THEN parse_datetime(s)
    ELSE IF parse_datetime(s).val[1] = "Utc"
    THEN Ok(<<"UtcDate", parse_datetime(s).val[2]>>)
    ELSE Err(BadValue("UtcDate", s))

VALUE == <<"V","A","L","U","E">>      \* IanaParam::Value
TZID  == <<"T","Z","I","D">>       \* IanaParam::Tzid

\* parse_when, lines 135-138, dt being the outcome of parse_datetime
datetime_when(tzid, dt) ==
    IF dt.kind # "ok" THEN dt
    ELSE IF tzid[1] = "Some" THEN Into("When::DateTime", with_tzid(dt.val, tzid[2]))
    ELSE Into("When::DateTime", dt)

\* parse_when
parse_when(cl) ==
    IF ValueOf(cl, VALUE) = <<"Some", <<"D","A","T","E">>>>
    THEN Into("When::Date", parse_date(cl.value))
    ELSE datetime_when(ValueOf(cl, TZID), parse_datetime(cl.value))

----------------------------------------------------------------------------
(* Recurrence rules *)

\* <enum of define_identifier_set!>::from_str: the token, looked up in the
\* enum's table
FromToken(s, tokens) == IF s \in tokens THEN Ok(s) ELSE Err(<<>>)

TranspTokens == {<<"T","R","A","N","S","P","A","R","E","N","T">>, <<"O","P","A","Q","U","E">>}
StatusTokens == {<<"T","E","N","T","A","T","I","V","E">>, <<"C","O","N","F","I","R","M","E","D">>, <<"C","A","N","C","E","L","L","E","D">>}
FreqTokens ==
    {<<"S","E","C","O","N","D","L","Y">>, <<"M","I","N","U","T","E","L","Y">>, <<"H","O","U","R","L","Y">>, <<"D","A","I","L","Y">>, <<"W","E","E","K","L","Y">>, <<"M","O","N","T","H","L","Y">>,
     <<"Y","E","A","R","L","Y">>}
WeekdayTokens == {<<"M","O">>, <<"T","U">>, <<"W","E">>, <<"T","H">>, <<"F","R">>, <<"S","A">>, <<"S","U">>}

Transp_from_str(s)  == FromToken(s, TranspTokens)
Status_from_str(s)  == FromToken(s, StatusTokens)
Freq_from_str(s)    == FromToken(s, FreqTokens)
Weekday_from_str(s) == FromToken(s, WeekdayTokens)

\* WeekdayNum::from_str, lines 194-200, wday and num being the outcomes of the
\* two parse; num is <<"None">> or <<"Some", n>>
weekdaynum_of(s, wday, num) ==
    IF wday.kind = "err" THEN Err(<<>>)
    ELSE IF Len(s) = 2 THEN Ok([wday |-> wday.val, num |-> <<"None">>])
    ELSE IF num.kind = "err" THEN Err(<<>>)
    ELSE Ok([wday |-> wday.val, num |-> <<"Some", num.val>>])

\* WeekdayNum::from_str
WeekdayNum_from_str(s) ==
    IF Len(s) < 2 THEN Err(<<>>)
    ELSE IF Slice(s, 0, Len(s) - 2).kind = "abort" THEN Slice(s, 0, Len(s) - 2)
    ELSE weekdaynum_of(s, Weekday_from_str(SubSeq(s, Len(s) - 1, Len(s))),
                       I8FromStr(SubSeq(s, 1, Len(s) - 2)))

\* parse_until
parse_until(s) ==
    IF Len(s) = 8 THEN Into("Until", parse_date(s))
    ELSE Into("Until", parse_datetime(s))

\* str::split(c): the parts between the occurrences of c, at least one part
RECURSIVE Split(_, _)
Split(s, c) ==
    IF IndexOf(s, c) = 0 THEN <<s>>
    ELSE <<BeforeFirst(s, c)>> \o Split(AfterFirst(s, c), c)

\* <X as FromStr>::from_str, X named by its type
FromStr(X, s) ==
    IF X = "u8" THEN U8FromStr(s)
    ELSE IF X = "u32" THEN U32FromStr(s)
    ELSE IF X = "i32" THEN I32FromStr(s)
    ELSE IF X = "WeekdayNum" THEN WeekdayNum_from_str(s)
    ELSE IF X = "Status" THEN Status_from_str(s)
    ELSE Transp_from_str(s)

\* Iterator::collect into a Result: the values when every element is Ok, else
\* the first element that is not
collect(rs) ==
    IF \A k \in 1..Len(rs) : rs[k].kind = "ok"
    THEN Ok([k \in 1..Len(rs) |-> rs[k].val])
    ELSE rs[CHOOSE k \in 1..Len(rs) :
               rs[k].kind # "ok" /\ \A j \in 1..(k - 1) : rs[j].kind = "ok"]

\* s.split(',').map(|v| FromStr::from_str(v))
from_str_each(X, vs) == [k \in 1..Len(vs) |-> FromStr(X, vs[k])]

\* parse_comma_list::<X>
parse_comma_list(s, X) == collect(from_str_each(X, Split(s, ",")))

\* The fields of struct Rrule, and the local variable of parse_rrule a key sets
RruleFields ==
    {"freq", "stop", "interval", "wkst", "bysecond", "byminute", "byhour",
     "bymonth", "byyearday", "bymonthday", "byweekno", "bysetpos", "byday"}

RruleKeys ==
    {<<<<"F","R","E","Q">>, "freq">>, <<<<"U","N","T","I","L">>, "stop">>, <<<<"C","O","U","N","T">>, "stop">>,
     <<<<"I","N","T","E","R","V","A","L">>, "interval">>, <<<<"W","K","S","T">>, "wkst">>,
     <<<<"B","Y","S","E","C","O","N","D">>, "bysecond">>, <<<<"B","Y","M","I","N","U","T","E">>, "byminute">>,
     <<<<"B","Y","H","O","U","R">>, "byhour">>, <<<<"B","Y","M","O","N","T","H">>, "bymonth">>,
     <<<<"B","Y","Y","E","A","R","D","A","Y">>, "byyearday">>, <<<<"B","Y","M","O","N","T","H","D","A","Y">>, "bymonthday">>,
     <<<<"B","Y","W","E","E","K","N","O">>, "byweekno">>, <<<<"B","Y","S","E","T","P","O","S">>, "bysetpos">>,
     <<<<"B","Y","D","A","Y">>, "byday">>}

IsRruleKey(type_) == \E kf \in RruleKeys : kf[1] = type_
FieldOf(type_) == (CHOOSE kf \in RruleKeys : kf[1] = type_)[2]

\* The element type of the list a BY* key sets (struct Rrule)
ElementType(type_) ==
    IF type_ \in {<<"B","Y","S","E","C","O","N","D">>, <<"B","Y","M","I","N","U","T","E">>, <<"B","Y","H","O","U","R">>, <<"B","Y","M","O","N","T","H">>} THEN "u8"
    ELSE IF type_ \in {<<"B","Y","Y","E","A","R","D","A","Y">>, <<"B","Y","M","O","N","T","H","D","A","Y">>, <<"B","Y","W","E","E","K","N","O">>} THEN "i32"
    ELSE IF type_ = <<"B","Y","S","E","T","P","O","S">> THEN "u32"
    ELSE "WeekdayNum"

\* The right-hand side of a match arm of parse_rrule, before map_err
rrule_value(type_, value) ==
    IF type_ = <<"F","R","E","Q">> THEN Freq_from_str(value)
    ELSE IF type_ = <<"U","N","T","I","L">> THEN parse_until(value)
    ELSE IF type_ = <<"C","O","U","N","T">> THEN Into("Count", U32FromStr(value))
    ELSE IF type_ = <<"I","N","T","E","R","V","A","L">> THEN U32FromStr(value)
    ELSE IF type_ = <<"W","K","S","T">> THEN Weekday_from_str(value)
    ELSE parse_comma_list(value, ElementType(type_))

\* A match arm's assignment keeping the first value of a field
assign_once(rule, field, v) ==
    IF rule[field] = <<"None">> THEN [rule EXCEPT ![field] = <<"Some", v>>] ELSE rule

\* A match arm's assignment: field = Some(v)
assign(rule, field, v) == [rule EXCEPT ![field] = <<"Some", v>>]

\* The loop of parse_rrule from its k-th part on; rule holds the local
\* variables.  rrule_arm is the match on the k-th part's key, v the outcome of
\* the arm's right-hand side.
RECURSIVE rrule_parts(_, _, _, _)
RECURSIVE rrule_arm(_, _, _, _, _)
rrule_arm(parts, k, rule, spec, v) ==
    IF v.kind = "err" THEN Err(BadValue("Rrule", spec))
    ELSE IF v.kind = "abort" THEN v
    ELSE rrule_parts(parts, k + 1,
                     assign(rule, FieldOf(BeforeFirst(parts[k], "=")), v.val), spec)

rrule_parts(parts, k, rule, spec) ==
    IF k > Len(parts) THEN Ok(rule)
    ELSE IF IndexOf(parts[k], "=") = 0 THEN Err(BadValue("Rrule", spec))
    ELSE IF ~IsRruleKey(BeforeFirst(parts[k], "=")) THEN Err(BadValue("Rrule", spec))
    ELSE rrule_arm(parts, k, rule, spec,
                   rrule_value(BeforeFirst(parts[k], "="), AfterFirst(parts[k], "=")))

\* parse_rrule, lines 270-284: the Rrule of the local variables
rrule_of(r) ==
    IF r.kind # "ok" THEN r
    ELSE IF r.val["freq"] = <<"None">> THEN Panic("unwrap")
    ELSE Ok([r.val EXCEPT !["freq"] = r.val["freq"][2]])

\* parse_rrule
parse_rrule(cl) ==
    rrule_of(rrule_parts(Split(cl.value, ";"), 1, [f \in RruleFields |-> <<"None">>],
                         cl.value))

----------------------------------------------------------------------------
(* parse_property *)

BEGIN   == <<"B","E","G","I","N">>      \* Property::Begin
DTSTART == <<"D","T","S","T","A","R","T">>
RRULE   == <<"R","R","U","L","E">>

\* The variant of Property that ContentLine::name returns
PropertyVariant(n) ==
    IF n = END THEN "End"
    ELSE IF n = BEGIN THEN "Begin"
    ELSE IF PropertyFromBytes(n) THEN "Iana"
    ELSE "Extended"

\* parse_data::<X>
parse_data(s, datatype, X) == MapErr(FromStr(X, s), BadValue(datatype, s))

\* The arms of parse_property that decode with parse_when, keep the value as
\* it is, and decode with parse_utc
WhenProperties == {DTSTART, <<"D","T","E","N","D">>, <<"R","E","C","U","R","R","E","N","C","E","-","I","D">>, <<"E","X","D","A","T","E">>}
TextProperties == {<<"S","U","M","M","A","R","Y">>, <<"U","I","D">>, <<"D","E","S","C","R","I","P","T","I","O","N">>, <<"C","O","M","M","E","N","T">>, <<"L","O","C","A","T","I","O","N">>}
UtcProperties  == {<<"D","T","S","T","A","M","P">>, <<"L","A","S","T","-","M","O","D","I","F","I","E","D">>, <<"C","R","E","A","T","E","D">>}

\* The properties parse_property has a decoder for
DecodedProperties ==
    WhenProperties \cup TextProperties \cup UtcProperties
        \cup {RRULE, <<"S","T","A","T","U","S">>, <<"S","E","Q","U","E","N","C","E">>, <<"T","R","A","N","S","P">>}

\* An arm `Variant(decode(..).map_err(|bad| Error { bad, line })?)` wrapped in
\* Ok(Some(..))
Arm(cl, r) ==
    IF r.kind = "ok" THEN Ok(<<"Some", <<cl.name, r.val>>>>)
    ELSE IF r.kind = "err" THEN Err([bad |-> r.val, line |-> cl.line])
    ELSE r

\* parse_property; Ok(None) is Ok(<<"None">>), Ok(Some(p)) is Ok(<<"Some", p>>)
parse_property(cl) ==
    IF PropertyVariant(cl.name) = "Extended" THEN Ok(<<"Some", <<"Extended", cl>>>>)
    ELSE IF PropertyVariant(cl.name) = "End" THEN Ok(<<"None">>)
    ELSE IF PropertyVariant(cl.name) = "Begin" THEN Panic("todo")
    ELSE IF cl.name \in WhenProperties THEN Arm(cl, parse_when(cl))
    ELSE IF cl.name \in TextProperties THEN Arm(cl, Ok(cl.value))
    ELSE IF cl.name = RRULE THEN Arm(cl, parse_rrule(cl))
    ELSE IF cl.name = <<"S","T","A","T","U","S">>
    THEN Arm(cl, parse_data(cl.value, "Status", "Status"))
    ELSE IF cl.name = <<"S","E","Q","U","E","N","C","E">> THEN Arm(cl, parse_data(cl.value, "Int", "u32"))
    ELSE IF cl.name = <<"T","R","A","N","S","P">>
    THEN Arm(cl, parse_data(cl.value, "Transp", "Transp"))
    ELSE IF cl.name \in UtcProperties THEN Arm(cl, parse_utc(cl.value))
    ELSE Ok(<<"Some", <<"Unknown">>>>)

----------------------------------------------------------------------------
(* The decoder's inputs: content lines as the lexer hands them over.        *)

lexing == <<stream, pos, line, content, ident_buf, value_buf, param_value, i,
            name, call_line, pc, result, startPos, pvStart>>

ContentLine(n, ps, v) ==
    [name |-> n, params |-> ps, num_params |-> 0, value |-> v, line |-> 0]

Param(pn, vs) == [name |-> pn, values |-> vs]

\* The YYYY, MM and DD fields of the date strings
YearFields  == {<<"2","0","2","3">>, <<"2","0","2","4">>, <<"1","9","0","0">>, <<"2","0","0","0">>, <<"+","0","2","3">>, <<"-","0","2","3">>, <<"2","0","a","3">>}
MonthFields == {<<"0","0">>, <<"0","1">>, <<"0","2">>, <<"0","4">>, <<"1","2">>, <<"1","3">>, <<"+","1">>, <<"-","1">>, <<"1","a">>}
DayFields   == {<<"0","0">>, <<"0","1">>, <<"2","8">>, <<"2","9">>, <<"3","0">>, <<"3","1">>, <<"3","2">>, <<"+","1">>, <<"-","1">>}

DateStrings ==
    {y \o m \o d : y \in YearFields, m \in MonthFields, d \in DayFields}
        \cup {<<"2","0","2">> \o EAcute \o <<"1","0","1">>, <<"2","0","2","3">> \o EAcute \o <<"0","1">>,
              <<"2","0","2","3","1">> \o EAcute \o <<"1">>, <<"2","0","2","3">> \o EAcute \o <<"1","0","1">>}
        \cup {<<>>, <<"2","0","2","3","0","1","0">>, <<"2","0","2","3","0","1","0","1","1">>, <<"2","0","2","3">>, <<"0","0","2","0","2","3","0","1","0","1">>}

DateInputs == {ContentLine(DTSTART, <<>>, s) : s \in DateStrings}

\* Date-time values: a date, then nothing or "T" and a time with its suffix
TimeParts ==
    {<<>>, <<"T">>, <<"T","1","2">>, <<"T","1","2","0","0">>, <<"T","1","2","0","0","0","0">>, <<"T","1","2","0","0","0","0","Z">>, <<"T","1","2","0","0","0","0","X">>,
     <<"T","1","2","0","0","0","0","z">>, <<"T","1","2","0","0","0","0","Z","Z">>, <<"T","2","3","5","9","5","9","Z">>, <<"T","2","4","0","0","0","0">>, <<"T","1","2","6","0","0","0","Z">>,
     <<"T","1","2","0","0","6","0">>, <<"T","+","1","0","0","0","0">>, <<"T","-","1","0","0","0","0","Z">>, <<"T","1","2","0","0","0","Z">>, <<"t","1","2","0","0","0","0">>, <<"T","T","1","2","0","0","0","0">>,
     <<"T","1","2","0","0","0","0">> \o EAcute, <<"T","1","2","0","0","0">> \o EAcute, <<"T","1">> \o EAcute \o <<"0","0","0">>}

WhenValues ==
    {d \o t : d \in {<<"2","0","2","4","0","2","2","9">>, <<"2","0","2","3","0","2","2","9">>, <<"2","0","2","3","0","1","0","1">>, <<"2","0","2","3","0","1","0">>},
              t \in TimeParts}

\* The parameters of a line decoded as a When; a parameter value as written and
\* as read_params stores it, with the "=" in front
WhenParams ==
    {<<>>,
     <<Param(TZID, <<<<"Z","1">>>>)>>,
     <<Param(TZID, <<<<"=","Z","1">>>>)>>,
     <<Param(TZID, <<<<>>>>)>>,
     <<Param(TZID, <<>>)>>,
     <<Param(TZID, <<<<"Z","1">>, <<"Z","2">>>>)>>,
     <<Param(TZID, <<<<"Z","1">>>>), Param(TZID, <<<<"Z","2">>>>)>>,
     <<Param(CN, <<<<"Z","1">>>>)>>,
     <<Param(VALUE, <<<<"D","A","T","E">>>>)>>,
     <<Param(VALUE, <<<<"=","D","A","T","E">>>>)>>,
     <<Param(VALUE, <<<<"D","A","T","E","-","T","I","M","E">>>>)>>,
     <<Param(VALUE, <<<<"D","A","T","E","-","T","I","M","E">>>>), Param(TZID, <<<<"Z","1">>>>)>>,
     <<Param(VALUE, <<<<"D","A","T","E">>>>), Param(TZID, <<<<"Z","1">>>>)>>}

WhenInputs == {ContentLine(DTSTART, ps, v) : ps \in WhenParams, v \in WhenValues}

\* Recurrence-rule values: up to MaxParts parts joined by ";", a rule of
\* MaxParts core parts holding FREQ and a key twice
MaxParts == 3
MaxTokens == 2

RECURSIVE Join(_, _)
Join(parts, c) ==
    IF parts = <<>> THEN <<>>
    ELSE IF Len(parts) = 1 THEN parts[1]
    ELSE parts[1] \o <<c>> \o Join(Tail(parts), c)

CoreParts ==
    {<<"F","R","E","Q","=","D","A","I","L","Y">>, <<"F","R","E","Q","=","W","E","E","K","L","Y">>, <<"C","O","U","N","T","=","3">>, <<"U","N","T","I","L","=","2","0","2","3","0","1","0","1">>,
     <<"U","N","T","I","L","=","2","0","2","3","0","2","3","0">>, <<"B","Y","H","O","U","R","=","1">>, <<"B","Y","H","O","U","R","=","x">>, <<"X","-","F","O","O","=","1">>}

OtherParts ==
    {<<>>, <<"C","O","U","N","T","=","+","4">>, <<"B","Y","H","O","U","R","=","2",",","2","3">>,
     <<"F","R","E","Q">>, <<"F","R","E","Q","=","d","a","i","l","y">>, <<"f","r","e","q","=","D","A","I","L","Y">>, <<"F","R","E","Q","=","D","A","I","L","Y","=","2">>, <<"F","R","E","Q","=","Y","E","A","R","L","Y">>,
     <<"C","O","U","N","T","=","-","3">>, <<"C","O","U","N","T","=","x">>, <<"C","O","U","N","T","=">>, <<"C","O","U","N","T","=","4","2","9","4","9","6","7","2","9","5">>, <<"C","O","U","N","T","=","4","2","9","4","9","6","7","2","9","6">>,
     <<"U","N","T","I","L","=","2","0","2","3","0","1","0","1","T","1","2","0","0","0","0","Z">>, <<"U","N","T","I","L","=","2","0","2","3","0","1","0","1","T","1","2","0","0","0","0">>, <<"U","N","T","I","L","=","2","0","2","3","0","1","0","1","T","2","5","0","0","0","0","Z">>,
     <<"U","N","T","I","L","=","2","0","2","3">>, <<"I","N","T","E","R","V","A","L","=","2">>, <<"I","N","T","E","R","V","A","L","=","-","2">>, <<"W","K","S","T","=","M","O">>, <<"W","K","S","T","=","X","X">>,
     <<"B","Y","S","E","C","O","N","D","=","0",",","5","9">>, <<"B","Y","S","E","C","O","N","D","=","-","1">>, <<"B","Y","M","I","N","U","T","E","=","5">>, <<"B","Y","H","O","U","R","=","1",",",",","2">>,
     <<"B","Y","M","O","N","T","H","=","2","5","5">>, <<"B","Y","M","O","N","T","H","=","2","5","6">>, <<"B","Y","Y","E","A","R","D","A","Y","=","-","1",",","3","6","6">>,
     <<"B","Y","Y","E","A","R","D","A","Y","=","2","1","4","7","4","8","3","6","4","7">>, <<"B","Y","Y","E","A","R","D","A","Y","=","2","1","4","7","4","8","3","6","4","8">>, <<"B","Y","Y","E","A","R","D","A","Y","=","-","2","1","4","7","4","8","3","6","4","8">>,
     <<"B","Y","M","O","N","T","H","D","A","Y","=","-","1">>, <<"B","Y","M","O","N","T","H","D","A","Y","=","1",".","5">>, <<"B","Y","W","E","E","K","N","O","=","+","2">>, <<"B","Y","S","E","T","P","O","S","=","1">>,
     <<"B","Y","S","E","T","P","O","S","=","-","1">>}

\* The same key with two values
TwiceParts ==
    {<<<<"I","N","T","E","R","V","A","L","=","2">>, <<"I","N","T","E","R","V","A","L","=","3">>>>, <<<<"W","K","S","T","=","M","O">>, <<"W","K","S","T","=","T","U">>>>,
     <<<<"B","Y","S","E","C","O","N","D","=","1">>, <<"B","Y","S","E","C","O","N","D","=","2">>>>, <<<<"B","Y","M","I","N","U","T","E","=","1">>, <<"B","Y","M","I","N","U","T","E","=","2">>>>,
     <<<<"B","Y","M","O","N","T","H","=","1">>, <<"B","Y","M","O","N","T","H","=","2">>>>, <<<<"B","Y","Y","E","A","R","D","A","Y","=","1">>, <<"B","Y","Y","E","A","R","D","A","Y","=","2">>>>,
     <<<<"B","Y","M","O","N","T","H","D","A","Y","=","1">>, <<"B","Y","M","O","N","T","H","D","A","Y","=","2">>>>, <<<<"B","Y","W","E","E","K","N","O","=","1">>, <<"B","Y","W","E","E","K","N","O","=","2">>>>,
     <<<<"B","Y","S","E","T","P","O","S","=","1">>, <<"B","Y","S","E","T","P","O","S","=","2">>>>, <<<<"B","Y","D","A","Y","=","M","O">>, <<"B","Y","D","A","Y","=","2","T","U",",","W","E">>>>,
     <<<<"U","N","T","I","L","=","2","0","2","3","0","1","0","1">>, <<"U","N","T","I","L","=","2","0","2","4","0","2","2","9","T","1","2","0","0","0","0","Z">>>>,
     <<<<"I","N","T","E","R","V","A","L","=","2">>, <<"I","N","T","E","R","V","A","L","=","x">>>>, <<<<"I","N","T","E","R","V","A","L","=","x">>, <<"I","N","T","E","R","V","A","L","=","2">>>>}

ByDayTokens ==
    {<<"M","O">>, <<"S","U">>, <<"2","M","O">>, <<"-","1","S","U">>, <<"+","2","M","O">>, <<"-","M","O">>, <<"M">>, <<>>, <<"X","X">>,
     <<"m","o">>, <<"1","2","7","F","R">>, <<"1","2","8","F","R">>, <<"-","1","2","8","T","H">>, <<"-","1","2","9","T","H">>, EAcute, EAcute \o <<"M">>}

\* Tokens that come alone
LoneByDayTokens ==
    {<<"+","M","O">>, <<"2","X","X">>, <<"1",".","M","O">>, <<"M","O","2">>, <<"0","0","7","S","A">>, EAcute \o <<"M","O">>, <<"M","O">> \o EAcute}

ByDayParts ==
    {<<"B","Y","D","A","Y","=">> \o Join(ts, ",") : ts \in SeqsUpTo(ByDayTokens, MaxTokens) \ {<<>>}}
        \cup {<<"B","Y","D","A","Y","=">> \o t : t \in LoneByDayTokens}

RruleValues ==
    {Join(ps, ";") : ps \in SeqsUpTo(CoreParts, MaxParts)}
        \cup UNION {{p, Join(<<<<"F","R","E","Q","=","D","A","I","L","Y">>, p>>, ";"), Join(<<p, <<"F","R","E","Q","=","D","A","I","L","Y">>>>, ";")} :
                       p \in OtherParts \cup ByDayParts}
        \cup UNION {{Join(<<<<"F","R","E","Q","=","D","A","I","L","Y">>, t[1], t[2]>>, ";"),
                     Join(<<t[1], <<"F","R","E","Q","=","D","A","I","L","Y">>, t[2]>>, ";"),
                     Join(<<t[1], t[2]>>, ";")} : t \in TwiceParts}

RruleInputs == {ContentLine(RRULE, <<>>, v) : v \in RruleValues}

\* Lines of every registered property and of an extension property
PropertyValues ==
    {<<>>, <<"x">>, <<"3">>, <<"-","3">>, <<"C","O","N","F","I","R","M","E","D">>, <<"O","P","A","Q","U","E">>, <<"F","R","E","Q","=","D","A","I","L","Y">>,
     <<"2","0","2","3","0","1","0","1">>, <<"2","0","2","3","0","1","0","1","T","1","2","0","0","0","0","Z">>, <<"2","0","2","3","0","1","0","1","T","1","2","0","0","0","0">>, <<"2","0","2","3","0","2","3","0","T","1","2","0","0","0","0","Z">>}

PropertyInputs ==
    {ContentLine(n, ps, v) : n \in PropertyRegistry \cup {<<"X","-","F","O","O">>},
                             ps \in {<<>>, <<Param(TZID, <<<<"Z","1">>>>)>>},
                             v \in PropertyValues}

DecoderInputs == DateInputs \cup WhenInputs \cup RruleInputs \cup PropertyInputs

InitDecode ==
    \E cl \in DecoderInputs :
        /\ coli = cl
        /\ decoded = NotDecoded
        /\ src = [kind |-> "none"]
        /\ orig = <<>>
        /\ pass = 1
        /\ first = [result |-> NoResult, content |-> NewContent]
        /\ New(<<>>)

\* The outcome r of the decoder function fn applied to coli
Decoded(fn, r) ==
    /\ decoded.fn = "none"
    /\ decoded' = [fn |-> fn, kind |-> r.kind, val |-> r.val]
    /\ UNCHANGED <<coli, lexing, history>>

ParseDate     == Decoded("parse_date", parse_date(coli.value))
ParseDatetime == Decoded("parse_datetime", parse_datetime(coli.value))
ParseUtc      == Decoded("parse_utc", parse_utc(coli.value))
ParseWhen     == Decoded("parse_when", parse_when(coli))
ParseRrule    == Decoded("parse_rrule", parse_rrule(coli))
ParseProperty == Decoded("parse_property", parse_property(coli))

NextDecode ==
    \/ ParseDate
    \/ ParseDatetime
    \/ ParseUtc
    \/ ParseWhen
    \/ ParseRrule
    \/ ParseProperty

SpecDecode == InitDecode /\ [][NextDecode]_vars

----------------------------------------------------------------------------
(* Claims about the date parser *)

IsDigits(s) == \A k \in 1..Len(s) : s[k] \in Digit

\* The string s, eight digits, names a day of the calendar
NamesExistingDate(s) ==
    LET y == NatOf(SubSeq(s, 1, 4))
        m == NatOf(SubSeq(s, 5, 6))
        d == NatOf(SubSeq(s, 7, 8))
    IN  m \in 1..12 /\ d \in 1..DaysInMonth(y, m)

\* C14: parse_date on eight digits that name no calendar date returns the
\* invalid-Date error carrying the string, without aborting; on eight digits
\* that name a date it returns that date.
C14_NonexistentDateIsError ==
    (/\ decoded.fn = "parse_date"
     /\ Len(coli.value) = 8
     /\ IsDigits(coli.value))
        => IF NamesExistingDate(coli.value)
           THEN /\ decoded.kind = "ok"
                /\ decoded.val = <<"Date", NatOf(SubSeq(coli.value, 1, 4)),
                                   NatOf(SubSeq(coli.value, 5, 6)),
                                   NatOf(SubSeq(coli.value, 7, 8))>>
           ELSE /\ decoded.kind = "err"
                /\ decoded.val = BadValue("Date", coli.value)

\* The half of C14 about existing dates
ExistingDateIsReturned ==
    (/\ decoded.fn = "parse_date"
     /\ Len(coli.value) = 8
     /\ IsDigits(coli.value)
     /\ NamesExistingDate(coli.value))
        => /\ decoded.kind = "ok"
           /\ decoded.val = <<"Date", NatOf(SubSeq(coli.value, 1, 4)),
                              NatOf(SubSeq(coli.value, 5, 6)),
                              NatOf(SubSeq(coli.value, 7, 8))>>

\* C15: parse_date fails with the invalid-Date error carrying the string on
\* every string that is not exactly eight ASCII digits.
C15_OnlyEightDigitsParse ==
    (/\ decoded.fn = "parse_date"
     /\ ~(Len(coli.value) = 8 /\ IsDigits(coli.value)))
        => /\ decoded.kind = "err"
           /\ decoded.val = BadValue("Date", coli.value)

\* C15 without the signs and on ASCII: a string of another length, or an ASCII
\* string with a character that is neither a digit nor a sign, fails with the
\* invalid-Date error
UnsignedNonDateIsError ==
    (/\ decoded.fn = "parse_date"
     /\ \/ Len(coli.value) # 8
        \/ /\ \A k \in 1..Len(coli.value) : coli.value[k] \notin {XC3, XA9}
           /\ \E k \in 1..Len(coli.value) : coli.value[k] \notin Digit \cup {"+", "-"})
        => /\ decoded.kind = "err"
           /\ decoded.val = BadValue("Date", coli.value)

----------------------------------------------------------------------------
(* Claims about parse_when *)

\* cl is decoded as a date-time and its value is an existing date, "T", a
\* valid HHMMSS, and a suffix
IsDateTimeLine(cl) ==
    /\ ValueOf(cl, VALUE) # <<"Some", <<"D","A","T","E">>>>
    /\ Len(cl.value) >= 15
    /\ IsDigits(SubSeq(cl.value, 1, 8))
    /\ NamesExistingDate(SubSeq(cl.value, 1, 8))
    /\ cl.value[9] = "T"
    /\ IsDigits(SubSeq(cl.value, 10, 15))
    /\ NatOf(SubSeq(cl.value, 10, 11)) \in 0..23
    /\ NatOf(SubSeq(cl.value, 12, 13)) \in 0..59
    /\ NatOf(SubSeq(cl.value, 14, 15)) \in 0..59

Suffix(cl) == SubSeq(cl.value, 16, Len(cl.value))

\* The NaiveDateTime the first fifteen characters of the value write
WrittenDateTime(cl) ==
    <<<<"Date", NatOf(SubSeq(cl.value, 1, 4)), NatOf(SubSeq(cl.value, 5, 6)),
        NatOf(SubSeq(cl.value, 7, 8))>>,
      NatOf(SubSeq(cl.value, 10, 11)), NatOf(SubSeq(cl.value, 12, 13)),
      NatOf(SubSeq(cl.value, 14, 15))>>

\* The outcome (kind, val) of parse_when on coli is as C16 has it
WhenAsClaimed(kind, val) ==
    LET tzid == ValueOf(coli, TZID)
        dt   == WrittenDateTime(coli)
    IN  /\ IsDateTimeLine(coli) =>
            IF Suffix(coli) = <<>> /\ tzid = <<"None">>
            THEN kind = "ok" /\ val = <<"When::DateTime", <<"Floating", dt>>>>
            ELSE IF Suffix(coli) = <<>>
            THEN kind = "ok" /\ val = <<"When::DateTime", <<"Local", dt, tzid[2]>>>>
            ELSE IF Suffix(coli) = <<"Z">> /\ tzid = <<"None">>
            THEN kind = "ok" /\ val = <<"When::DateTime", <<"Utc", dt>>>>
            ELSE IF Suffix(coli) = <<"Z">>
            THEN kind = "err" /\ val[1] = "Condition"
            ELSE kind = "err" /\ val = BadValue("DateTime", coli.value)
        /\ (kind = "ok" /\ val[1] = "When::DateTime") =>
            /\ val[2][1] = "Utc" => tzid = <<"None">>
            /\ val[2][1] = "Local" => tzid = <<"Some", val[2][3]>>
            /\ val[2][1] = "Floating" => tzid = <<"None">>

\* C16: on a line decoded as a date-time with a valid DATE "T" HHMMSS, parse_when
\* gives Floating for no suffix and no TZID, Local carrying exactly the TZID
\* value for no suffix and a TZID, Utc for "Z" and no TZID, the semantic-conflict
\* error for "Z" with a TZID, the invalid-DateTime error for any other suffix.
\* Whatever the line, a Utc result comes with no TZID, a Local result carries
\* the line's TZID, and neither parse_when nor parse_property ends in the
\* panic of with_tzid.
C16_WhenFollowsSuffixAndTzid ==
    /\ decoded.fn = "parse_when" => WhenAsClaimed(decoded.kind, decoded.val)
    /\ (decoded.fn = "parse_property" /\ coli.name \in WhenProperties) =>
          WhenAsClaimed(decoded.kind,
                        IF decoded.kind = "ok" THEN decoded.val[2][2]
                        ELSE IF decoded.kind = "err" THEN decoded.val.bad
                        ELSE decoded.val)
    /\ (decoded.fn \in {"parse_when", "parse_property"} /\ decoded.kind = "abort")
          => decoded.val # TzidTwice

\* parse_when returned a Local date-time carrying the line's TZID
C16_LocalCarriesTzid ==
    /\ decoded.fn = "parse_when"
    /\ IsDateTimeLine(coli)
    /\ decoded.kind = "ok"
    /\ decoded.val[2][1] = "Local"
    /\ decoded.val[2][3] = <<"Z","1">>

----------------------------------------------------------------------------
(* Claims about parse_rrule *)

RuleParts(cl) == Split(cl.value, ";")
KeyOf(part) == BeforeFirst(part, "=")

\* The parts that are KEY=VALUE with one of the thirteen keys
IsKeyedPart(part) == IndexOf(part, "=") # 0 /\ IsRruleKey(KeyOf(part))

\* A key appears more than once in the rule value of cl
HasDuplicateKey(cl) ==
    \E j, k \in 1..Len(RuleParts(cl)) :
        /\ j < k
        /\ IsKeyedPart(RuleParts(cl)[j])
        /\ IsKeyedPart(RuleParts(cl)[k])
        /\ KeyOf(RuleParts(cl)[j]) = KeyOf(RuleParts(cl)[k])

\* The part is a key with a value that parses
IsValidPart(part) ==
    IsKeyedPart(part) /\ rrule_value(KeyOf(part), AfterFirst(part, "=")).kind = "ok"

HasFreq(cl) ==
    \E k \in 1..Len(RuleParts(cl)) :
        IsKeyedPart(RuleParts(cl)[k]) /\ KeyOf(RuleParts(cl)[k]) = <<"F","R","E","Q">>

\* What the last part of cl that sets the field f gives it
LastValue(cl, f) ==
    LET ks == {k \in 1..Len(RuleParts(cl)) :
                  IsKeyedPart(RuleParts(cl)[k]) /\ FieldOf(KeyOf(RuleParts(cl)[k])) = f}
        k  == CHOOSE m \in ks : \A n \in ks : n <= m
    IN  IF ks = {} THEN <<"None">>
        ELSE <<"Some", rrule_value(KeyOf(RuleParts(cl)[k]),
                                   AfterFirst(RuleParts(cl)[k], "=")).val>>

\* C17 as claimed: a rule value in which a key appears more than once gets the
\* invalid-recurrence-rule error, never a Rrule; stated of the values that
\* have FREQ and whose parts all parse, which nothing else rejects.
C17_DuplicateKeyIsRejected ==
    (/\ decoded.fn = "parse_rrule"
     /\ HasDuplicateKey(coli)
     /\ HasFreq(coli)
     /\ \A k \in 1..Len(RuleParts(coli)) : IsValidPart(RuleParts(coli)[k]))
        => /\ decoded.kind = "err"
           /\ decoded.val = BadValue("Rrule", coli.value)

\* C17 as the code has it: a repeated key is not rejected.  A rule value with a
\* repeated key whose parts all parse and that has FREQ gives a Rrule, and in
\* every Rrule returned for a value with a repeated key each field holds what
\* the last part setting it gives (UNTIL and COUNT both set stop).
C17_LastOccurrenceWins ==
    (decoded.fn = "parse_rrule" /\ HasDuplicateKey(coli))
        => /\ ((\A k \in 1..Len(RuleParts(coli)) : IsValidPart(RuleParts(coli)[k]))
                  /\ HasFreq(coli)) => decoded.kind = "ok"
           /\ decoded.kind = "ok" =>
                 /\ decoded.val["freq"] = LastValue(coli, "freq")[2]
                 /\ \A f \in RruleFields \ {"freq"} :
                        decoded.val[f] = LastValue(coli, f)

\* parse_rrule returned a Rrule with the second of two FREQ values
C17_SecondFreqReturned ==
    /\ decoded.fn = "parse_rrule"
    /\ coli.value = <<"F","R","E","Q","=","D","A","I","L","Y",";","F","R","E","Q","=","W","E","E","K","L","Y">>
    /\ decoded.kind = "ok"
    /\ decoded.val["freq"] = <<"W","E","E","K","L","Y">>

\* The part's value aborts: a date or time that does not exist, or a slice
\* inside a character
IsAbortingPart(part) ==
    IsKeyedPart(part) /\ rrule_value(KeyOf(part), AfterFirst(part, "=")).kind = "abort"

\* C18: parse_rrule never returns a Rrule for a value without FREQ; when every
\* part is valid and FREQ is absent the call aborts in the unwrap; when any
\* part is invalid or has an unrecognized key, the outcome is the
\* invalid-recurrence-rule error, with or without FREQ.
C18_FreqIsMandatory ==
    decoded.fn = "parse_rrule" =>
        /\ ~HasFreq(coli) => decoded.kind # "ok"
        /\ ((\A k \in 1..Len(RuleParts(coli)) : IsValidPart(RuleParts(coli)[k]))
               /\ ~HasFreq(coli))
              => (decoded.kind = "abort" /\ decoded.val = "unwrap")
        /\ (\E k \in 1..Len(RuleParts(coli)) : ~IsValidPart(RuleParts(coli)[k]))
              => (decoded.kind = "err" /\ decoded.val = BadValue("Rrule", coli.value))

\* C18 on the values none of whose parts aborts by itself
FreqIsMandatoryWithoutAbortingPart ==
    (/\ decoded.fn = "parse_rrule"
     /\ \A k \in 1..Len(RuleParts(coli)) : ~IsAbortingPart(RuleParts(coli)[k]))
        => /\ ~HasFreq(coli) => decoded.kind # "ok"
           /\ ((\A k \in 1..Len(RuleParts(coli)) : IsValidPart(RuleParts(coli)[k]))
                  /\ ~HasFreq(coli))
                 => (decoded.kind = "abort" /\ decoded.val = "unwrap")
           /\ (\E k \in 1..Len(RuleParts(coli)) : ~IsValidPart(RuleParts(coli)[k]))
                 => (decoded.kind = "err" /\ decoded.val = BadValue("Rrule", coli.value))

----------------------------------------------------------------------------
(* Claims about BYDAY *)

\* The part is BYDAY=...
IsByDayPart(part) == IsKeyedPart(part) /\ KeyOf(part) = <<"B","Y","D","A","Y">>

\* The rule value of cl has FREQ and one BYDAY part, its other parts parsing
HasOneByDay(cl) ==
    /\ HasFreq(cl)
    /\ \E k \in 1..Len(RuleParts(cl)) :
          /\ IsByDayPart(RuleParts(cl)[k])
          /\ \A j \in 1..Len(RuleParts(cl)) :
                j # k => (~IsByDayPart(RuleParts(cl)[j]) /\ IsValidPart(RuleParts(cl)[j]))

\* The tokens t1,...,tk of the BYDAY part
ByDayTokensOf(cl) ==
    LET k == CHOOSE k \in 1..Len(RuleParts(cl)) : IsByDayPart(RuleParts(cl)[k])
    IN  Split(AfterFirst(RuleParts(cl)[k], "="), ",")

\* A signed ordinal: an optional sign, digits, a value that fits the i8 of
\* WeekdayNum.num
IsOrdinal(p) ==
    LET ds == IF p # <<>> /\ p[1] \in {"+", "-"} THEN Tail(p) ELSE p
    IN  /\ ds # <<>>
        /\ IsDigits(ds)
        /\ Len(StripZeros(ds)) <= 3
        /\ NatOf(ds) <= (IF p[1] = "-" THEN 128 ELSE 127)
OrdinalOf(p) ==
    IF p[1] = "-" THEN 0 - NatOf(Tail(p))
    ELSE IF p[1] = "+" THEN NatOf(Tail(p)) ELSE NatOf(p)

\* The token is a weekday tag, or a signed ordinal and a weekday tag
IsWeekdayNumToken(t) ==
    /\ Len(t) >= 2
    /\ SubSeq(t, Len(t) - 1, Len(t)) \in WeekdayTokens
    /\ Len(t) > 2 => IsOrdinal(SubSeq(t, 1, Len(t) - 2))

\* C19: for BYDAY=t1,...,tk parse_rrule yields k WeekdayNum entries in source
\* order, a two-character token giving its weekday without ordinal, a longer
\* one the weekday of its last two characters with the characters before as
\* signed ordinal; a token that is too short, has no weekday at its end or has
\* no integer before it fails the rule with the invalid-recurrence-rule error.
C19_ByDayTokens ==
    (decoded.fn = "parse_rrule" /\ HasOneByDay(coli)) =>
        LET ts == ByDayTokensOf(coli)
        IN  IF \A k \in 1..Len(ts) : IsWeekdayNumToken(ts[k])
            THEN /\ decoded.kind = "ok"
                 /\ decoded.val["byday"][1] = "Some"
                 /\ Len(decoded.val["byday"][2]) = Len(ts)
                 /\ \A k \in 1..Len(ts) :
                       /\ decoded.val["byday"][2][k].wday
                             = SubSeq(ts[k], Len(ts[k]) - 1, Len(ts[k]))
                       /\ decoded.val["byday"][2][k].num
                             = IF Len(ts[k]) = 2 THEN <<"None">>
                               ELSE <<"Some", OrdinalOf(SubSeq(ts[k], 1, Len(ts[k]) - 2))>>
            ELSE /\ decoded.kind = "err"
                 /\ decoded.val = BadValue("Rrule", coli.value)

\* C19 on the BYDAY values of ASCII characters
ByDayTokensOfAscii ==
    (/\ decoded.fn = "parse_rrule"
     /\ HasOneByDay(coli)
     /\ \A k \in 1..Len(coli.value) : coli.value[k] \notin {XC3, XA9})
        => LET ts == ByDayTokensOf(coli)
           IN  IF \A k \in 1..Len(ts) : IsWeekdayNumToken(ts[k])
               THEN /\ decoded.kind = "ok"
                    /\ decoded.val["byday"][1] = "Some"
                    /\ Len(decoded.val["byday"][2]) = Len(ts)
                    /\ \A k \in 1..Len(ts) :
                          /\ decoded.val["byday"][2][k].wday
                                = SubSeq(ts[k], Len(ts[k]) - 1, Len(ts[k]))
                          /\ decoded.val["byday"][2][k].num
                                = IF Len(ts[k]) = 2 THEN <<"None">>
                                  ELSE <<"Some", OrdinalOf(SubSeq(ts[k], 1, Len(ts[k]) - 2))>>
               ELSE /\ decoded.kind = "err"
                    /\ decoded.val = BadValue("Rrule", coli.value)

----------------------------------------------------------------------------
(* Claims about parse_property *)

\* The registered properties parse_property has no decoder for
UndecodedProperties == (PropertyRegistry \ DecodedProperties) \ {BEGIN, END}

\* C20: for BEGIN, for END and for every registered property without a
\* decoder, parse_property returns the Unknown marker, with no error and no
\* abort.
C20_UndecodedIsUnknown ==
    (/\ decoded.fn = "parse_property"
     /\ coli.name \in UndecodedProperties \cup {BEGIN, END})
        => /\ decoded.kind = "ok"
           /\ decoded.val = <<"Some", <<"Unknown">>>>

\* C20 without the two pseudo-properties
UndecodedRegisteredIsUnknown ==
    (decoded.fn = "parse_property" /\ coli.name \in UndecodedProperties)
        => /\ decoded.kind = "ok"
           /\ decoded.val = <<"Some", <<"Unknown">>>>

----------------------------------------------------------------------------
(* Reuse of the lexer's buffers across calls *)

\* Streams of several records: a first record with parameters and a value,
\* octets on which calls end in a recoverable error and leave the cursor at
\* the start of what follows, and a second record.
SkippedOctets ==
    { <<>>
    , <<"X", CR, ";">>                           \* Bad::Property
    , END \o <<";", "Z", CR, ":">>               \* Bad::Param
    , END \o <<";">> \o CN \o <<XFF, CR, ":">>   \* Bad::Encoding
    , <<"X", CR, ";">> \o END \o <<";", "Z", CR, ":">> }

SecondRecords ==
    [kind : {"rec"}, name : {END},
     params : { <<>>
              , << SrcParam(DIR, FALSE, << <<"c">> >>) >>
              , << SrcParam(CN, TRUE, << <<"c">> >>) >> },
     value : {<<>>, <<"d">>, <<"d", FoldSP, BS, "e">>}, term : {CRLF}, rest : {<<>>}]

\* A first record END;CN"a":x whose parameter value is read by read_quoted
QuotedFirst == END \o <<";">> \o CN \o <<DQ, "a", DQ, ":", "x">> \o CRLF

ReuseSources ==
    { [kind |-> "rec", name |-> END, params |-> ps, value |-> v, term |-> CRLF,
       rest |-> sk \o Render(r, TRUE)] :
        ps \in SrcParams, v \in {<<>>, <<"a", "b">>}, sk \in SkippedOctets,
        r \in SecondRecords }
    \cup
    { [kind |-> "raw", name |-> QuotedFirst, params |-> <<>>, value |-> <<>>,
       term |-> <<>>, rest |-> sk \o Render(r, TRUE)] :
        sk \in SkippedOctets, r \in SecondRecords }

InitReuse ==
    \E s \in ReuseSources :
        /\ coli = NewContent
        /\ decoded = NotDecoded
        /\ src = s
        /\ orig = Render(s, FALSE)
        /\ pass = 1
        /\ first = [result |-> NoResult, content |-> NewContent]
        /\ New(Render(s, TRUE))

\* Lexer::new on the octets that a call which returned a ContentLine started
\* at; the reused lexer's ContentLine is kept.
StartFresh ==
    /\ pass = 1
    /\ pc = "ready"
    /\ result.kind = "line"
    /\ first' = [result |-> result, content |-> content]
    /\ pass' = 2
    /\ stream' = SubSeq(stream, startPos + 1, Len(stream))
    /\ pos' = 0
    /\ line' = 1
    /\ content' = NewContent
    /\ ident_buf' = <<>>
    /\ value_buf' = <<>> /\ param_value' = <<>> /\ i' = 0 /\ name' = END /\ call_line' = 0
    /\ pc' = "ready"
    /\ result' = NoResult
    /\ startPos' = 0 /\ pvStart' = 0
    /\ UNCHANGED <<src, orig, decoding>>

NextReuse ==
    \/ Next
    \/ StartFresh

SpecReuse == InitReuse /\ [][NextReuse]_vars

\* What a ContentLine exposes through name(), value(), values_of() and value_of()
Exposed(cl) ==
    [name      |-> cl.name,
     value     |-> cl.value,
     values_of |-> [pn \in ParamNameRegistry |-> ValuesOf(cl, pn)],
     value_of  |-> [pn \in ParamNameRegistry |-> ValueOf(cl, pn)]]

\* The first call of the fresh lexer is over
FreshCallOver == pass = 2 /\ startPos = 0 /\ pc \in {"ready", "aborted"} /\ result.kind # "none"

\* C21: the ContentLine a successful call returns, after any earlier calls on
\* the same lexer (recoverable errors among them), exposes through name(),
\* value(), value_of() and values_of() exactly what a new lexer returns for the
\* octets that call started at: nothing of an earlier record is visible.
C21_NoStaleData ==
    FreshCallOver => /\ result.kind = "line"
                     /\ Exposed(content) = Exposed(first.content)

\* A ContentLine returned after a record with parameter CN and value ":ab" and
\* a call that ended in the unrecognized-property error: it exposes no CN and
\* nothing of that value, as for the new lexer.
C21_EarlierRecordHidden ==
    /\ FreshCallOver
    /\ result.kind = "line"
    /\ src.params = OneParam /\ src.value = <<"a", "b">>
    /\ src.rest[1] = "X"
    /\ Len(stream) < Len(src.rest)
    /\ ValuesOf(first.content, CN) = <<"None">>
    /\ first.content.value = <<>>
    /\ Exposed(content) = Exposed(first.content)

----------------------------------------------------------------------------
(* Progress of a caller that skips recoverable errors *)

\* C22: every call of lex_content_line made on a non-empty stream has consumed
\* at least one octet when it returns, whether it returns a ContentLine or an
\* Error; so a caller that goes on after recoverable errors reaches the end of
\* a finite stream, a bare LF after a value included.
C22_EveryCallConsumes ==
    (pc = "ready" /\ result.kind \in {"line", "err"}) => pos > startPos

\* A call that returns a ContentLine has consumed at least the ":" of the record
ReturnedLineConsumes == ReturnedLine => pos > startPos

\* A call that consumed nothing ends in a recoverable error and leaves the
\* lexer as it found it: the next call is the same call again
StuckCallIsRecoverable ==
    (pc = "ready" /\ result.kind \in {"line", "err"} /\ pos = startPos)
        => /\ result.kind = "err" /\ result.cond = "Property" /\ result.bytes = <<>>
           /\ ~IsUnrecoverable(result.cond)
           /\ ~AtEnd(pos)

----------------------------------------------------------------------------
(* A logical newline before the record's ":" *)

MaxBreak == 5     \* the CR LF is put in after at most this many octets, or before the ":"

\* Records, each to be broken by a CR LF at any place before its ":"
UnbrokenRecords ==
    { END \o <<":", "v">> \o CRLF
    , END \o <<";">> \o CN \o <<"=", "a", ":", "v">> \o CRLF
    , END \o <<";">> \o CN \o <<DQ, "a", DQ, ":", "v">> \o CRLF
    , END \o <<";">> \o CN \o <<"=", "a", ",", "b", ":", "v">> \o CRLF
    , END \o <<";">> \o CN \o <<"=", "a", ";">> \o DIR \o <<"=", "b", ":", "v">> \o CRLF }

\* The place of the first ":" at or after place k of a byte string, 0 if none
RECURSIVE ColonFrom(_, _)
ColonFrom(s, k) ==
    IF k > Len(s) THEN 0 ELSE IF s[k] = ":" THEN k ELSE ColonFrom(s, k + 1)

\* A record, and the record with CR LF put in after its first k octets
NewlineSources ==
    { [kind |-> "raw", name |-> SubSeq(t, 1, k), params |-> <<>>, value |-> <<>>,
       term |-> <<>>, rest |-> nl \o SubSeq(t, k + 1, Len(t))] :
        t \in UnbrokenRecords, k \in 0..MaxBreak, nl \in {<<>>, CRLF} }
    \cup
    { [kind |-> "raw", name |-> SubSeq(t, 1, ColonFrom(t, 1) - 1), params |-> <<>>,
       value |-> <<>>, term |-> <<>>,
       rest |-> CRLF \o SubSeq(t, ColonFrom(t, 1), Len(t))] : t \in UnbrokenRecords }

InitNewline ==
    \E s \in NewlineSources :
        /\ coli = NewContent
        /\ decoded = NotDecoded
        /\ src = s
        /\ orig = Render(s, FALSE)
        /\ pass = 1
        /\ first = [result |-> NoResult, content |-> NewContent]
        /\ New(Render(s, TRUE))

SpecNewline == InitNewline /\ [][Next]_vars

\* Place k of the stream holds the CR of a CR LF that no SP or HTAB follows
LogicalNewlineAt(k) ==
    /\ k + 1 <= Len(stream)
    /\ stream[k] = CR /\ stream[k + 1] = LF
    /\ ~(k + 2 <= Len(stream) /\ stream[k + 2] \in {SP, HT})

\* No CR of the stream stands without its LF
NoLoneCR == \A k \in 1..Len(stream) : stream[k] = CR => (k < Len(stream) /\ stream[k + 1] = LF)

\* C23: when a logical newline stands between the octet a call starts at and
\* the next ":", the call does not return a ContentLine: no ContentLine has its
\* name or parameters from before the newline and its value from after it.
C23_NoLineAcrossNewline ==
    (ReturnedLine /\ NoLoneCR)
        => ~\E k \in (startPos + 1)..Len(stream) :
               LogicalNewlineAt(k) /\ k < ColonFrom(stream, startPos + 1)

============================================================================
